---- MODULE Spec2Model ----
(***************************************************************************)
(* The freeze ring buffer of WinXPCrash (src/src/buffer.rs) and the way    *)
(* the plugin drives it (src/src/lib.rs).                                  *)
(*                                                                         *)
(* A RingBuffer is a record [samples, size, head, freezing].  The methods  *)
(* advance, next_item and resize are operators on such records, computed   *)
(* as the Rust code computes them, together with the panics the code can   *)
(* raise (usize subtraction overflow, remainder by zero, index out of      *)
(* bounds).                                                                *)
(***************************************************************************)
EXTENDS Integers, Sequences, FiniteSets, TLC

(***************************************************************************)
(* Bounds.  The plugin allocates 65536 samples and offers sizes 128..65536;*)
(* the model keeps the same shape with a small capacity.                   *)
(***************************************************************************)
MaxCap == 4
MinSize == 2

\* lib.rs:8   const MAX_BUFFER_SIZE: usize = 65536  (scaled to MaxCap)
MAX_BUFFER_SIZE == MaxCap

\* A parameter range that starts at 0.
BufferSizeRange_from_zero == 0 .. MAX_BUFFER_SIZE

\* lib.rs:48-52   IntRange::Linear { min: 128, max: MAX_BUFFER_SIZE }  (scaled)
BufferSizeRange == MinSize .. MAX_BUFFER_SIZE

\* Any size a caller of the public RingBuffer API can pass, including 0 and
\* sizes above the capacity.
AnySize == 0 .. (MAX_BUFFER_SIZE + 2)

\* f32 sample values; 0 is the silence the buffer is initialised with.
Samples == {0, 1, 2}

\* The samples fed to the stream log's buffer: audible, so that what is read
\* back can be told from the silence of a fresh or zeroed slot.
Tones == Samples \ {0}

\* Valid indices of the Vec `samples` (its length is MAX_BUFFER_SIZE).
Idx == 0 .. (MAX_BUFFER_SIZE - 1)

\* usize::MAX.  The real value is 2^64 - 1; the model uses the largest value
\* TLC's integers hold, which is likewise far above every index and size.
USIZE_MAX == (2^30 - 1) + 2^30

Min(a, b) == IF a <= b THEN a ELSE b

VARIABLES
    buf,              \* the RingBuffer
    panic,            \* "none", or the panic that ended the program
    op,               \* call log: the last call made, [name, arg]
    out,              \* call log: the value returned by the last next_item
    recorded,         \* stream log: items stored since the last resize / unfreeze
                      \*   (the last `size` of them)
    played,           \* stream log: [idx, val] read while frozen since the freeze
                      \*   began / the last resize (the first `size` of them)
    grown,            \* stream log: [active, loop]; active while the buffer stays
                      \*   frozen after a grow, loop = the values it replayed before
    channel_buffers,  \* WinXpCrash: one RingBuffer per channel (empty before initialize)
    note_freezing,    \* WinXpCrash: the flag the note events set
    params,           \* WinXpCrashParams: [buffer_size, freeze]
    held,             \* host: the notes switched on and not yet off
    call              \* plugin call log: [name, ins, outs] of the last call of
                      \*   default, initialize or process

ringvars == <<buf, op, out, recorded, played, grown>>
pluginvars == <<channel_buffers, note_freezing, params, held, call>>
vars == <<buf, panic, op, out, recorded, played, grown,
          channel_buffers, note_freezing, params, held, call>>

----------------------------------------------------------------------------
(* RingBuffer *)

\* buffer.rs:11-18
new(size) ==
    [samples |-> [i \in Idx |-> 0], size |-> size, head |-> 0, freezing |-> FALSE]

\* `n - 1` on usize when overflow is not checked (wrapping).
sub1(n) == IF n = 0 THEN USIZE_MAX ELSE n - 1

\* How advance can end: `self.size - 1` overflows for size 0, which panics in
\* a build with overflow checks and wraps in one without; `% 0` always panics.
advance_outcomes(b) ==
    IF b.size = 0 THEN {"subtract_overflow", "none"}
    ELSE IF b.size = 1 THEN {"rem_by_zero"}
    ELSE {"none"}

\* A correct ring would wrap at the full logical size.
advance_fullwrap(b) ==
    [b EXCEPT !.head = (b.head + 1) % b.size]

\* advance that wraps at the physical capacity instead of the logical size.
advance_wrapcap(b) ==
    [b EXCEPT !.head = (b.head + 1) % MAX_BUFFER_SIZE]

\* buffer.rs:20-22   self.head = (self.head + 1) % (self.size - 1)
advance(b) ==
    [b EXCEPT !.head = (b.head + 1) % sub1(b.size)]

\* How next_item can end: with a panic of advance, or, when advance returns,
\* with the bounds check of samples[self.head].
next_item_outcomes(b) ==
    (advance_outcomes(b) \ {"none"}) \cup
    (IF "none" \notin advance_outcomes(b) THEN {}
     ELSE IF advance(b).head >= MAX_BUFFER_SIZE THEN {"index_out_of_bounds"}
     ELSE {"none"})

\* The RingBuffer at the moment next_item panics with p (head is advanced
\* before the index is checked).
next_item_at_panic(b, p) ==
    IF p = "index_out_of_bounds" THEN advance(b) ELSE b

\* next_item that forgets to store the item while recording.
next_item_nowrite(b, item) ==
    LET a == advance(b) IN
    IF a.freezing
    THEN [buf |-> a, ret |-> a.samples[a.head]]
    ELSE [buf |-> a, ret |-> item]

\* next_item that ignores the freezing flag.
next_item_nofreeze(b, item) ==
    LET a == advance(b) IN
    [buf |-> [a EXCEPT !.samples[a.head] = item], ret |-> item]

\* buffer.rs:25-33   returns the new buffer and the returned sample
next_item(b, item) ==
    LET a == advance(b) IN
    IF a.freezing
    THEN [buf |-> a, ret |-> a.samples[a.head]]
    ELSE [buf |-> [a EXCEPT !.samples[a.head] = item], ret |-> item]

\* buffer.rs:37   self.samples.iter_mut().skip(size).for_each(|s| *s = 0.)
zero_tail(samples, size) ==
    [i \in Idx |-> IF i >= size THEN 0 ELSE samples[i]]

\* How resize can end: `size - 1` overflows for size 0 (panic or wrap, as the
\* build has it).
resize_outcomes(size) ==
    IF size = 0 THEN {"subtract_overflow", "none"} ELSE {"none"}

\* The RingBuffer at the moment resize panics: the tail is already zeroed.
resize_at_panic(b, size) ==
    [b EXCEPT !.samples = zero_tail(b.samples, size)]

\* resize that forgets to clamp the head.
resize_noclamp(b, size) ==
    [b EXCEPT !.samples = zero_tail(b.samples, size), !.size = size]

\* resize that forgets to zero the tail.
resize_nozero(b, size) ==
    [b EXCEPT !.head = Min(b.head, sub1(size)), !.size = size]

\* resize that rewinds the head instead of clamping it.
resize_rewind(b, size) ==
    [b EXCEPT !.samples = zero_tail(b.samples, size), !.head = 0, !.size = size]

\* buffer.rs:35-41
resize(b, size) ==
    [b EXCEPT !.samples = zero_tail(b.samples, size),
              !.head = Min(b.head, sub1(size)),
              !.size = size]

\* A freeze toggle that also rewinds the head.
set_freezing_rewind(b, flag) ==
    [b EXCEPT !.freezing = flag, !.head = 0]

\* A freeze control that flips the mode when set instead of storing the flag.
set_freezing_toggle(b, flag) ==
    [b EXCEPT !.freezing = (flag # b.freezing)]

\* lib.rs:154   channel_buffer.freezing = ...   (the pub field, buffer.rs:7)
set_freezing(b, flag) ==
    [b EXCEPT !.freezing = flag]

\* The values the next n calls of next_item return from b when it is frozen
\* and left alone: the loop it replays.
RECURSIVE Replay(_, _)
Replay(b, n) ==
    IF n = 0 \/ "none" \notin next_item_outcomes(b) THEN {}
    ELSE LET r == next_item(b, 0) IN {r.ret} \cup Replay(r.buf, n - 1)

\* grown when no grow of a frozen buffer is being followed.
NotGrown == [active |-> FALSE, loop |-> {}]

----------------------------------------------------------------------------
(* The calls, as steps on the RingBuffer.  A panic ends the program.       *)

\* lib.rs:148   *sample = channel_buffer.next_item(*sample)
NextItemStep(item) ==
    /\ panic = "none"
    /\ \E p \in next_item_outcomes(buf) :
          /\ panic' = p
          /\ buf' = IF p = "none" THEN next_item(buf, item).buf
                    ELSE next_item_at_panic(buf, p)

\* lib.rs:153   channel_buffer.resize(...)
ResizeStep(size) ==
    /\ panic = "none"
    /\ \E p \in resize_outcomes(size) :
          /\ panic' = p
          /\ buf' = IF p = "none" THEN resize(buf, size)
                    ELSE resize_at_panic(buf, size)

\* lib.rs:154   channel_buffer.freezing = flag
SetFreezingStep(flag) ==
    /\ panic = "none"
    /\ buf' = set_freezing(buf, flag)
    /\ UNCHANGED panic

----------------------------------------------------------------------------
(* WinXpCrash: the plugin around the RingBuffers                           *)

\* lib.rs:50   the default of the buffer_size parameter (1024, inside the range)
DefaultSize == MinSize + 1

\* lib.rs:71-92   AUDIO_IO_LAYOUTS: stereo and mono
Layouts == {1, 2}

\* The notes of the events the host sends.
Notes == {1, 2}

\* lib.rs:134-142   the NoteEvent variants process tells apart
NoteOn(n) == [kind |-> "NoteOn", note |-> n]
NoteOff(n) == [kind |-> "NoteOff", note |-> n]
OtherEvent == [kind |-> "Other", note |-> 0]

\* lib.rs:32-59   WinXpCrash::default() and WinXpCrashParams::default()
Default ==
    /\ channel_buffers = <<>>
    /\ note_freezing = FALSE
    /\ params = [buffer_size |-> DefaultSize, freeze |-> FALSE]
    /\ held = {}
    /\ call = [name |-> "default", ins |-> <<>>, outs |-> <<>>]

\* lib.rs:134-142   one turn of the event loop
handle_event(nf, e) ==
    IF e.kind = "NoteOn" THEN TRUE
    ELSE IF e.kind = "NoteOff" THEN FALSE
    ELSE nf

\* lib.rs:133-143   while let Some(event) = context.next_event()
RECURSIVE handle_events(_, _)
handle_events(nf, events) ==
    IF events = <<>> THEN nf
    ELSE handle_events(handle_event(nf, Head(events)), Tail(events))

\* The notes held after the events, given the notes held before.
RECURSIVE hold(_, _)
hold(h, events) ==
    IF events = <<>> THEN h
    ELSE LET e == Head(events) IN
         hold(IF e.kind = "NoteOn" THEN h \cup {e.note}
              ELSE IF e.kind = "NoteOff" THEN h \ {e.note}
              ELSE h,
              Tail(events))

\* The way a call ends in a build with (checks) or without overflow checks,
\* of the ways it can end.
pick(outcomes, checks) ==
    IF "none" \in outcomes /\ (outcomes = {"none"} \/ ~checks) THEN "none"
    ELSE CHOOSE p \in outcomes : p # "none"

\* The builds that differ on the state: overflow checks matter for size 0 only.
Builds(bufs, size) ==
    IF size = 0 \/ \E i \in 1 .. Len(bufs) : bufs[i].size = 0
    THEN BOOLEAN ELSE {TRUE}

\* A frame loop that hands channel 0's sample to every buffer.
RECURSIVE process_frame_crossed(_, _, _, _)
process_frame_crossed(st, frame, i, checks) ==
    IF i > Len(st.bufs) \/ st.panic # "none" THEN st
    ELSE LET b == st.bufs[i]
             p == pick(next_item_outcomes(b), checks)
         IN  IF p # "none"
             THEN [st EXCEPT !.panic = p, !.bufs[i] = next_item_at_panic(b, p)]
             ELSE LET r == next_item(b, frame[1]) IN
                  process_frame_crossed(
                      [bufs |-> [st.bufs EXCEPT ![i] = r.buf],
                       out |-> Append(st.out, r.ret),
                       panic |-> "none"],
                      frame, i + 1, checks)

\* lib.rs:146-149   for (i, channel_buffer) in channel_buffers.iter_mut().enumerate():
\* the buffers from i on take their sample of the frame; st = [bufs, out, panic]
RECURSIVE process_frame(_, _, _, _)
process_frame(st, frame, i, checks) ==
    IF i > Len(st.bufs) \/ st.panic # "none" THEN st
    ELSE LET b == st.bufs[i]
             p == pick(next_item_outcomes(b), checks)
         IN  IF p # "none"
             THEN [st EXCEPT !.panic = p, !.bufs[i] = next_item_at_panic(b, p)]
             ELSE LET r == next_item(b, frame[i]) IN
                  process_frame(
                      [bufs |-> [st.bufs EXCEPT ![i] = r.buf],
                       out |-> Append(st.out, r.ret),
                       panic |-> "none"],
                      frame, i + 1, checks)

\* lib.rs:145-150   for mut channel_sample in buffer.iter_samples():
\* st = [bufs, outs, panic], outs the frames written back so far
RECURSIVE process_samples(_, _, _)
process_samples(st, block, checks) ==
    IF block = <<>> \/ st.panic # "none" THEN st
    ELSE LET f == process_frame([bufs |-> st.bufs, out |-> <<>>, panic |-> "none"],
                                Head(block), 1, checks)
         IN  process_samples(
                 [bufs |-> f.bufs,
                  outs |-> IF f.panic = "none" THEN Append(st.outs, f.out) ELSE st.outs,
                  panic |-> f.panic],
                 Tail(block), checks)

\* lib.rs:152-155   every buffer from i on is resized and takes the freeze flag
RECURSIVE configure(_, _, _, _, _)
configure(st, i, size, flag, checks) ==
    IF i > Len(st.bufs) \/ st.panic # "none" THEN st
    ELSE LET b == st.bufs[i]
             p == pick(resize_outcomes(size), checks)
         IN  IF p # "none"
             THEN [st EXCEPT !.panic = p, !.bufs[i] = resize_at_panic(b, size)]
             ELSE configure(
                      [st EXCEPT !.bufs[i] = set_freezing(resize(b, size), flag)],
                      i + 1, size, flag, checks)

\* process that applies the block's configuration before it runs the samples.
process_config_first(bufs, nf, par, events, block, checks) ==
    LET nf2 == handle_events(nf, events)
        c == configure([bufs |-> bufs, outs |-> <<>>, panic |-> "none"], 1,
                       par.buffer_size, par.freeze \/ nf2, checks)
        s == process_samples(c, block, checks)
    IN  [bufs |-> s.bufs, outs |-> s.outs, panic |-> s.panic, nf |-> nf2]

\* lib.rs:127-158   WinXpCrash::process: the events, the samples, then the
\* configuration for the next block
process(bufs, nf, par, events, block, checks) ==
    LET nf2 == handle_events(nf, events)
        s == process_samples([bufs |-> bufs, outs |-> <<>>, panic |-> "none"],
                             block, checks)
        c == configure(s, 1, par.buffer_size, par.freeze \/ nf2, checks)
    IN  [bufs |-> c.bufs, outs |-> c.outs, panic |-> c.panic, nf |-> nf2]

\* lib.rs:113-125   WinXpCrash::initialize
Initialize(channels) ==
    /\ panic = "none"
    /\ channel_buffers' = [i \in 1 .. channels |-> new(params.buffer_size)]
    /\ call' = [name |-> "initialize", ins |-> <<>>, outs |-> <<>>]
    /\ UNCHANGED <<note_freezing, params, held, panic>>
    /\ UNCHANGED ringvars

\* lib.rs:127-158   WinXpCrash::process on an initialized plugin
Process(events, block) ==
    /\ panic = "none"
    /\ call.name # "default"
    /\ \A j \in 1 .. Len(block) : Len(block[j]) = Len(channel_buffers)
    /\ \E checks \in Builds(channel_buffers, params.buffer_size) :
       \E r \in {process(channel_buffers, note_freezing, params, events, block, checks)} :
          /\ channel_buffers' = r.bufs
          /\ note_freezing' = r.nf
          /\ panic' = r.panic
          /\ call' = [name |-> "process", ins |-> block, outs |-> r.outs]
    /\ held' = hold(held, events)
    /\ UNCHANGED params
    /\ UNCHANGED ringvars

\* lib.rs:48-52   the host sets the buffer_size parameter
SetBufferSize(size) ==
    /\ panic = "none"
    /\ params' = [params EXCEPT !.buffer_size = size]
    /\ UNCHANGED <<channel_buffers, note_freezing, held, call, panic>>
    /\ UNCHANGED ringvars

\* lib.rs:53-56   the host sets the freeze parameter
SetFreeze(flag) ==
    /\ panic = "none"
    /\ params' = [params EXCEPT !.freeze = flag]
    /\ UNCHANGED <<channel_buffers, note_freezing, held, call, panic>>
    /\ UNCHANGED ringvars

\* The frames of n channels: silence on every channel, or a tone that differs
\* from channel to channel, so that a sample can be told from its neighbour's.
Frames(n) == {[i \in 1 .. n |-> 0], [i \in 1 .. n |-> i]}

\* The audio blocks handed to process: up to two frames of n channels.
Blocks(n) ==
    {<<>>} \cup {<<f>> : f \in Frames(n)} \cup {<<f, g>> : f, g \in Frames(n)}

\* The events of one block in SpecPlugin: at most one, of one note.
FewEvents == {<<>>, <<NoteOn(1)>>, <<NoteOff(1)>>}

\* The events of one block in SpecNotes: up to two, of two notes.
NoteEvents ==
    LET E == {NoteOn(n) : n \in Notes} \cup {NoteOff(n) : n \in Notes} \cup {OtherEvent}
    IN  {<<>>} \cup {<<e>> : e \in E} \cup {<<e, f>> : e, f \in E}

\* The event streams a host sends when the notes in h are held: a note is
\* switched off only while it is on, and on only while it is off.
RECURSIVE WellFormed(_, _)
WellFormed(h, events) ==
    IF events = <<>> THEN TRUE
    ELSE LET e == Head(events) IN
         /\ e.kind = "NoteOn" => e.note \notin h
         /\ e.kind = "NoteOff" => e.note \in h
         /\ WellFormed(hold(h, <<e>>), Tail(events))

\* The plugin after default(), before the host calls it.
InitPlugin ==
    /\ Default
    /\ panic = "none"
    /\ buf = new(DefaultSize)
    /\ op = [name |-> "new", arg |-> DefaultSize]
    /\ out = 0
    /\ recorded = <<>>
    /\ played = <<>>
    /\ grown = NotGrown

(* SpecPlugin: the plugin under audio blocks of one or two channels.       *)
NextPlugin ==
    \/ \E channels \in Layouts : Initialize(channels)
    \/ \E events \in {e \in FewEvents : WellFormed(held, e)},
          block \in Blocks(Len(channel_buffers)) :
           Process(events, block)
    \/ \E size \in BufferSizeRange : SetBufferSize(size)
    \/ \E flag \in BOOLEAN : SetFreeze(flag)

SpecPlugin == InitPlugin /\ [][NextPlugin]_vars

(* SpecNotes: the mono plugin under the note events of two notes.          *)
NextNotes ==
    \/ Initialize(1)
    \/ \E events \in {e \in NoteEvents : WellFormed(held, e)},
          block \in {<<>>, <<<<1>>>>} :
           Process(events, block)
    \/ \E size \in BufferSizeRange : SetBufferSize(size)
    \/ \E flag \in BOOLEAN : SetFreeze(flag)

SpecNotes == InitPlugin /\ [][NextNotes]_vars

----------------------------------------------------------------------------
(* Spec: one RingBuffer driven the way the plugin drives it (sizes from    *)
(* the parameter range), with the call log kept.                           *)

\* lib.rs:119   RingBuffer::new(self.params.buffer_size.value() as usize)
Init ==
    /\ \E size \in BufferSizeRange :
          /\ buf = new(size)
          /\ op = [name |-> "new", arg |-> size]
    /\ panic = "none"
    /\ out = 0
    /\ recorded = <<>>
    /\ played = <<>>
    /\ grown = NotGrown
    /\ Default

NextItem(item) ==
    /\ NextItemStep(item)
    /\ op' = [name |-> "next_item", arg |-> item]
    /\ out' = IF panic' = "none" THEN next_item(buf, item).ret ELSE out
    /\ UNCHANGED <<recorded, played, grown>>
    /\ UNCHANGED pluginvars

Resize(size) ==
    /\ ResizeStep(size)
    /\ op' = [name |-> "resize", arg |-> size]
    /\ UNCHANGED <<out, recorded, played, grown>>
    /\ UNCHANGED pluginvars

SetFreezing(flag) ==
    /\ SetFreezingStep(flag)
    /\ op' = [name |-> "set_freezing", arg |-> flag]
    /\ UNCHANGED <<out, recorded, played, grown>>
    /\ UNCHANGED pluginvars

Next ==
    \/ \E item \in Samples : NextItem(item)
    \/ \E size \in BufferSizeRange : Resize(size)
    \/ \E flag \in BOOLEAN : SetFreezing(flag)

Spec == Init /\ [][Next]_vars

----------------------------------------------------------------------------
(* SpecAny: the same RingBuffer, once constructed, driven through its      *)
(* public methods with any usize as size.                                  *)

NextAny ==
    \/ \E item \in Samples : NextItem(item)
    \/ \E size \in AnySize : Resize(size)
    \/ \E flag \in BOOLEAN : SetFreezing(flag)

SpecAny == Init /\ [][NextAny]_vars

----------------------------------------------------------------------------
(* SpecLoop: the RingBuffer of Spec with the stream log kept instead of    *)
(* the call log: what was stored while recording, what is read back while  *)
(* frozen.                                                                 *)

\* The last n elements of s (all of s when it is shorter).
LastN(s, n) ==
    IF Len(s) <= n THEN s ELSE SubSeq(s, Len(s) - n + 1, Len(s))

\* A sample goes through next_item: stored while recording, read while frozen.
Feed(item) ==
    /\ NextItemStep(item)
    /\ recorded' = IF panic' = "none" /\ ~buf'.freezing
                   THEN LastN(Append(recorded, item), buf'.size)
                   ELSE recorded
    /\ played' = IF panic' = "none" /\ buf'.freezing /\ Len(played) < buf'.size
                 THEN Append(played, [idx |-> buf'.head,
                                      val |-> next_item(buf, item).ret])
                 ELSE played
    /\ UNCHANGED <<op, out, grown>>
    /\ UNCHANGED pluginvars

\* A resize starts both logs afresh.
FeedResize(size) ==
    /\ ResizeStep(size)
    /\ recorded' = <<>>
    /\ played' = <<>>
    /\ grown' = IF panic' = "none" /\ buf.freezing /\ size > buf.size
                THEN [active |-> TRUE, loop |-> Replay(buf, buf.size)]
                ELSE NotGrown
    /\ UNCHANGED <<op, out>>
    /\ UNCHANGED pluginvars

\* Freezing starts a new playback, unfreezing a new recording.
FeedFreezing(flag) ==
    /\ SetFreezingStep(flag)
    /\ recorded' = IF buf.freezing /\ ~flag THEN <<>> ELSE recorded
    /\ played' = IF ~buf.freezing /\ flag THEN <<>> ELSE played
    /\ grown' = IF flag THEN grown ELSE NotGrown
    /\ UNCHANGED <<op, out>>
    /\ UNCHANGED pluginvars

NextLoop ==
    \/ \E item \in Tones : Feed(item)
    \/ \E size \in BufferSizeRange : FeedResize(size)
    \/ \E flag \in BOOLEAN : FeedFreezing(flag)

SpecLoop == Init /\ [][NextLoop]_vars

----------------------------------------------------------------------------
(* Claims *)

\* C1 (P1, cursor bound): driven with sizes from the caller's range, after
\* every call of next_item and resize 0 <= head < size.
C1_CursorBound ==
    /\ panic = "none"
    /\ 0 <= buf.head
    /\ buf.head < buf.size

\* C1 witness: a resize has shrunk the buffer and clamped the head onto the
\* last index of the new size.
C1_Witness ==
    /\ op.name = "resize"
    /\ buf.size < MAX_BUFFER_SIZE
    /\ buf.head = buf.size - 1
    /\ buf.head > 0

C3_PeriodIsSize ==
    (panic = "none" /\ buf.freezing /\ Len(played) >= buf.size) =>
        /\ {played[k].idx : k \in 1 .. buf.size} = 0 .. (buf.size - 1)
        /\ \A j, k \in 1 .. buf.size : played[j].idx = played[k].idx => j = k

\* C4 as claimed: next_item advances the head to (old head + 1) mod size
\* before touching storage; from head = size - 1 the next head is 0.
C4_AdvanceModSize ==
    [][(op'.name = "next_item" /\ panic' = "none") =>
           buf'.head = (buf.head + 1) % buf.size]_vars

\* C5 (P2, pass-through): when not frozen next_item(x) returns x, stores x at
\* samples[head] and leaves every other slot unchanged.
C5_PassThrough ==
    [][(op'.name = "next_item" /\ panic' = "none" /\ ~buf.freezing) =>
           /\ out' = op'.arg
           /\ buf'.samples[buf'.head] = op'.arg
           /\ \A i \in Idx \ {buf'.head} : buf'.samples[i] = buf.samples[i]]_vars

\* C5 witness: a sample was passed through and stored over silence.
C5_Witness ==
    /\ op.name = "next_item"
    /\ ~buf.freezing
    /\ op.arg = 2
    /\ out = 2
    /\ buf.head > 0
    /\ buf.samples[buf.head] = 2
    /\ buf.samples[0] = 1

\* C6: when frozen next_item never writes: samples, size and freezing are
\* unchanged and the output is samples[head] after the advance, whatever the
\* input.
C6_FrozenReadOnly ==
    [][(op'.name = "next_item" /\ panic' = "none" /\ buf.freezing) =>
           /\ buf'.samples = buf.samples
           /\ buf'.size = buf.size
           /\ buf'.freezing = buf.freezing
           /\ out' = buf.samples[buf'.head]]_vars

\* C6 witness: frozen, the input was discarded and a captured sample returned.
C6_Witness ==
    /\ op.name = "next_item"
    /\ buf.freezing
    /\ out # 0
    /\ out # op.arg
    /\ buf.samples[buf.head] = out

\* C7 as claimed: the component guards the logical size itself: whatever size
\* is requested, 1 <= size <= MAX_BUFFER_SIZE in every reachable state and no
\* call faults.
C7_SizeGuarded ==
    /\ panic = "none"
    /\ 1 <= buf.size
    /\ buf.size <= MAX_BUFFER_SIZE

\* C8 as claimed: next_item is total over valid state: from every state with
\* 1 <= size <= MAX_BUFFER_SIZE and head < size it returns without a fault.
C8_NextItemTotal ==
    [][(/\ op'.name = "next_item"
        /\ 1 <= buf.size
        /\ buf.size <= MAX_BUFFER_SIZE
        /\ buf.head < buf.size) => panic' = "none"]_vars

\* C9 (P4, Scenario C, resize postcondition): after resize(k) with
\* 1 <= k <= MAX_BUFFER_SIZE every slot at an index >= k is 0, the slots below
\* k are unchanged, head = min(old head, k - 1), size = k and freezing is
\* unchanged.
C9_ResizePost ==
    [][(op'.name = "resize" /\ 1 <= op'.arg /\ op'.arg <= MAX_BUFFER_SIZE) =>
           /\ panic' = "none"
           /\ \A i \in Idx : buf'.samples[i] =
                  (IF i >= op'.arg THEN 0 ELSE buf.samples[i])
           /\ buf'.head = Min(buf.head, op'.arg - 1)
           /\ buf'.size = op'.arg
           /\ buf'.freezing = buf.freezing]_vars

\* C9 witness: a resize to 2 clamped the head to 1 and kept the two slots
\* below the new size.
C9_Witness ==
    /\ op.name = "resize"
    /\ op.arg = 2
    /\ panic = "none"
    /\ buf.size = 2
    /\ buf.head = 1
    /\ buf.samples[0] # 0
    /\ buf.samples[1] # 0
    /\ \A i \in Idx : i >= 2 => buf.samples[i] = 0

\* C10: setting the freeze flag changes only the flag (head, size and every
\* slot stay as they were), and nothing but that assignment changes the flag.
C10_FreezeOnlyFlag ==
    [][/\ buf'.freezing # buf.freezing => op'.name = "set_freezing"
       /\ op'.name = "set_freezing" =>
              /\ buf'.freezing = op'.arg
              /\ buf'.head = buf.head
              /\ buf'.size = buf.size
              /\ buf'.samples = buf.samples]_vars

\* C10 witness: the flag was set on a buffer holding captured samples with the
\* head away from 0.
C10_Witness ==
    /\ op.name = "set_freezing"
    /\ buf.freezing
    /\ buf.head > 0
    /\ buf.samples[buf.head] # 0

\* C11 (P5, idempotent freeze): setting freezing to true twice in a row
\* yields the same RingBuffer as setting it once, and the same output for
\* whatever sample is processed next.
C11_FreezeIdempotent ==
    panic = "none" =>
        LET once == set_freezing(buf, TRUE)
            twice == set_freezing(once, TRUE)
        IN  /\ twice = once
            /\ twice.freezing
            /\ \A item \in Samples :
                   "none" \in next_item_outcomes(once) =>
                       next_item(twice, item).ret = once.samples[advance(once).head]

\* C11 witness: freezing was set to true on a buffer that holds captured
\* samples and was already frozen by an earlier call.
C11_Witness ==
    /\ op.name = "set_freezing"
    /\ op.arg
    /\ buf.freezing
    /\ out # 0
    /\ buf.samples[buf.head] = out
    /\ buf.head > 0

\* C13: shrinking while frozen truncates the loop immediately: after
\* resize(k) every output while frozen, the very next one included, is read
\* from a storage index < k (k being the size the buffer then has).
C13_ShrinkTruncates ==
    [][(op'.name = "next_item" /\ panic' = "none" /\ buf.freezing) =>
           /\ buf'.head < buf.size
           /\ op.name = "resize" => buf'.head < op.arg
           /\ out' = buf.samples[buf'.head]
           /\ buf'.size = buf.size]_vars

\* C13 witness: a frozen buffer was shrunk and its head clamped onto the last
\* index of the new size, from where the next read has to come back below k.
C13_Witness ==
    /\ op.name = "resize"
    /\ buf.freezing
    /\ op.arg = MinSize
    /\ buf.head = op.arg - 1
    /\ buf.samples[0] # 0

\* C14: in the reference code the last logical index is unreachable by
\* processing: next_item leaves head <= size - 2 and never writes
\* samples[size - 1], and head = size - 1 arises only from a resize (it then
\* stays until the next next_item).
C14_LastIndexUnreachable ==
    [][/\ (op'.name = "next_item" /\ panic' = "none") =>
              /\ buf'.head <= buf.size - 2
              /\ buf'.samples[buf.size - 1] = buf.samples[buf.size - 1]
       /\ (buf'.head = buf'.size - 1 /\ op'.name # "resize") =>
              /\ op'.name = "set_freezing"
              /\ buf.head = buf.size - 1]_vars

\* C14 witness: recording at size 3 has filled slots 0 and 1 and left slot 2,
\* the last logical index, silent.
C14_Witness ==
    /\ op.name = "next_item"
    /\ ~buf.freezing
    /\ buf.size = 3
    /\ buf.head = 1
    /\ buf.samples[0] # 0
    /\ buf.samples[1] # 0
    /\ buf.samples[2] = 0

\* C17: in every state reached from new() by next_item, resize (to a size
\* >= 1) and freeze toggles, every slot at an index >= size is 0.
C17_TailZero ==
    (panic = "none" /\ buf.size >= 1) =>
        \A i \in Idx : i >= buf.size => buf.samples[i] = 0

\* C17 witness: a buffer with samples in slots 0 .. 2 was shrunk to 3, which
\* kept them and left the tail silent.
C17_Witness ==
    /\ op.name = "resize"
    /\ op.arg = 3
    /\ panic = "none"
    /\ buf.size = 3
    /\ buf.samples[0] # 0
    /\ buf.samples[1] # 0
    /\ buf.samples[2] # 0
    /\ \A i \in Idx : i >= 3 => buf.samples[i] = 0

\* C18: the per-block resize is harmless when the size did not change:
\* resize(size) leaves samples, head, size and freezing unchanged in every
\* reachable state, and resize(k) twice equals resize(k) once.
C18_ResizeSameSize ==
    panic = "none" =>
        /\ resize(buf, buf.size) = buf
        /\ \A k \in BufferSizeRange :
               resize(resize(buf, k), k) = resize(buf, k)

\* C18 witness: a resize was made on a recording buffer whose head is away
\* from 0 and which holds a sample in every slot up to the head.
C18_Witness ==
    /\ op.name = "resize"
    /\ op.arg = buf.size
    /\ ~buf.freezing
    /\ buf.head > 0
    /\ \A i \in 0 .. buf.head : buf.samples[i] # 0

\* C12 as claimed: growing while frozen exposes only silence: after a resize
\* from k to m > k while frozen, every output while the buffer stays frozen is
\* a sample of the loop replayed before the grow or 0; no sample recorded
\* earlier under a larger size reappears.
C12_GrowOnlySilence ==
    (panic = "none" /\ grown.active) =>
        \A k \in 1 .. Len(played) : played[k].val \in (grown.loop \cup {0})

\* The samples of channel c in the frames of block.
Column(block, c) == [j \in 1 .. Len(block) |-> block[j][c]]

\* Feeding the samples xs through next_item of buffer b, one after the other:
\* the buffer afterwards and the samples returned.
RECURSIVE ChannelRun(_, _)
ChannelRun(b, xs) ==
    IF xs = <<>> THEN [buf |-> b, outs |-> <<>>]
    ELSE LET r == next_item(b, Head(xs))
             rest == ChannelRun(r.buf, Tail(xs))
         IN  [buf |-> rest.buf, outs |-> <<r.ret>> \o rest.outs]

\* A step of process that returned (the host's parameter writes leave the
\* call log alone and change params).
ProcessReturned ==
    /\ call'.name = "process"
    /\ params' = params
    /\ panic' = "none"

\* C15: configuration is stable within a block: every sample of a block is
\* processed with the size and the freeze flag the buffers had when the block
\* began (recording after initialize, whatever the block's events and
\* parameters say), and the events and parameters of the block set the size and
\* the flag for the next block.
C15_BlockStable ==
    [][/\ ProcessReturned =>
              \A c \in 1 .. Len(channel_buffers) :
                  LET old == channel_buffers[c]
                      ins == Column(call'.ins, c)
                      outs == Column(call'.outs, c)
                  IN  /\ Len(call'.outs) = Len(call'.ins)
                      /\ outs = ChannelRun(old, ins).outs
                      /\ ~old.freezing => outs = ins
                      /\ old.freezing =>
                             /\ \A j \in 1 .. Len(outs) :
                                    \E i \in 0 .. (old.size - 1) : outs[j] = old.samples[i]
                             /\ channel_buffers'[c].samples =
                                    zero_tail(old.samples, params.buffer_size)
                      /\ channel_buffers'[c].size = params.buffer_size
                      /\ channel_buffers'[c].freezing = (params.freeze \/ note_freezing')
       /\ (call'.name = "initialize" /\ params' = params) =>
              \A c \in 1 .. Len(channel_buffers') :
                  /\ ~channel_buffers'[c].freezing
                  /\ channel_buffers'[c].size = params.buffer_size]_vars

\* C15 witness: a block of two frames was passed through and recorded although
\* the freeze it brought is now set for the next block.
C15_Witness ==
    /\ call.name = "process"
    /\ Len(call.ins) = 2
    /\ call.outs = call.ins
    /\ call.ins[2][1] = 1
    /\ Len(channel_buffers) >= 1
    /\ channel_buffers[1].freezing
    /\ channel_buffers[1].samples[channel_buffers[1].head] = 1

\* C16 as claimed: after each process block every channel buffer's freezing
\* flag equals (freeze parameter on) or (some note is held, switched on and
\* not yet off).
C16_FrozenIffHeld ==
    [][ProcessReturned =>
           \A c \in 1 .. Len(channel_buffers') :
               channel_buffers'[c].freezing = (params.freeze \/ held' # {})]_vars

\* C19: with the size taken from the parameter range no sequence of initialize
\* and process blocks faults: no panic has happened, and no call of next_item
\* or resize the plugin can make next can index outside samples, underflow
\* size - 1 or take a remainder by zero.
C19_NoFault ==
    /\ panic = "none"
    /\ resize_outcomes(params.buffer_size) = {"none"}
    /\ \A c \in 1 .. Len(channel_buffers) :
           /\ next_item_outcomes(channel_buffers[c]) = {"none"}
           /\ channel_buffers[c].head < MAX_BUFFER_SIZE
           /\ channel_buffers[c].size >= 2
           /\ channel_buffers[c].size <= MAX_BUFFER_SIZE

\* C19 witness: a stereo block of two frames was processed and the buffers
\* then shrunk to the smallest size, the head clamped onto its last index.
C19_Witness ==
    /\ call.name = "process"
    /\ Len(call.ins) = 2
    /\ Len(channel_buffers) = 2
    /\ channel_buffers[1].size = MinSize
    /\ channel_buffers[1].head = MinSize - 1
    /\ channel_buffers[2].head = MinSize - 1

\* C20: the channel buffers move in lockstep and do not interfere: after
\* initialize and after every process block they all have the same head, size
\* and freezing flag, and what a block leaves in channel c's buffer is what
\* channel c's own samples make of it.
C20_Lockstep ==
    [][/\ \A c, d \in 1 .. Len(channel_buffers') :
              /\ channel_buffers'[c].head = channel_buffers'[d].head
              /\ channel_buffers'[c].size = channel_buffers'[d].size
              /\ channel_buffers'[c].freezing = channel_buffers'[d].freezing
       /\ ProcessReturned =>
              /\ Len(channel_buffers') = Len(channel_buffers)
              /\ \A c \in 1 .. Len(channel_buffers) :
                     channel_buffers'[c] =
                         set_freezing(
                             resize(ChannelRun(channel_buffers[c],
                                               Column(call'.ins, c)).buf,
                                    params.buffer_size),
                             params.freeze \/ note_freezing')]_vars

\* C20 witness: two channels hold different samples at the same head after a
\* block of two frames.
C20_Witness ==
    /\ call.name = "process"
    /\ Len(call.ins) = 2
    /\ Len(channel_buffers) = 2
    /\ channel_buffers[1].head = channel_buffers[2].head
    /\ channel_buffers[1].head > 0
    /\ channel_buffers[1].samples[0] # channel_buffers[2].samples[0]
    /\ channel_buffers[1].samples[1] # channel_buffers[2].samples[1]


====
